---- MODULE Spec2Model ----
(***************************************************************************)
(* Model of the YouTube stream watchdog (src/app.py).                      *)
(*                                                                         *)
(* StreamMonitor polls two detection strategies on every tick              *)
(* (monitor_task), counts consecutive negative ticks and, when the count   *)
(* reaches max_failures, runs the remote reboot command and resets the     *)
(* count.  run() performs one tick at once, registers the job with the     *)
(* scheduler and then loops over run_pending()/sleep(1) until a            *)
(* KeyboardInterrupt arrives.                                              *)
(*                                                                         *)
(* The tick is modelled statement group by statement group (pc), because   *)
(* KeyboardInterrupt is asynchronous: Python raises it in the main thread  *)
(* at whatever statement is executing.                                     *)
(***************************************************************************)
EXTENDS Integers, Sequences, FiniteSets, TLC

(***************************************************************************)
(* Bounds of the model.                                                    *)
(***************************************************************************)
\* number of completed ticks whose verdicts are recorded in hist
MaxTicks == 4
\* largest number of entries one metadata query returns
MaxEntries == 2
\* largest MAX_CONSECUTIVE_FAILURES value tried
MaxMaxFailures == 3
\* largest CHECK_INTERVAL tried, in sleep steps of the scheduler loop
MaxInterval == 1

(***************************************************************************)
(* Program constants.                                                      *)
(***************************************************************************)
\* os.getenv('MAX_CONSECUTIVE_FAILURES', 3)
DefaultMaxFailures == 3
\* smallest value int() accepts that the model tries: int() has no range check
MinMaxFailures == -1
\* duration > 3600
LiveDurationMin == 3600

(***************************************************************************)
(* The environment read at startup.  A required setting is TRUE when it is *)
(* set and non-empty (all([...]) is false for None and for '').            *)
(***************************************************************************)
MaxKinds == {"unset", "bad", "int"}

Envs ==
    { e \in [ channel_url  : BOOLEAN,
              ssh_host     : BOOLEAN,
              ssh_username : BOOLEAN,
              ssh_password : BOOLEAN,
              max_kind     : MaxKinds,
              max_val      : MinMaxFailures..MaxMaxFailures,
              interval_ok  : BOOLEAN,
              interval     : 1..MaxInterval ] :
        /\ (e.max_kind # "int" => e.max_val = DefaultMaxFailures)
        /\ (~e.interval_ok => e.interval = 1) }

(***************************************************************************)
(* Entries of the metadata a query returns.                                *)
(***************************************************************************)
LiveStatuses == {"is_live", "live", "was_live", "is_upcoming", "none"}
\* "has_live": the lower-cased title contains 'live'; "null": the title is None
Titles == {"has_live", "no_live", "null"}
DurationValues == {LiveDurationMin, LiveDurationMin + 1}

Entries ==
    { e \in [ live_status  : LiveStatuses,
              is_live      : BOOLEAN,
              was_live     : BOOLEAN,
              has_duration : BOOLEAN,
              duration     : DurationValues,
              title        : Titles ] :
        ~e.has_duration => e.duration = LiveDurationMin }

\* the entries as strategy n sees them: check_live_stream never reads the
\* title, check_live_stream_alternative never reads the duration
EntriesFor(n) ==
    IF n = 1
    THEN { e \in Entries : e.title = "no_live" }
    ELSE { e \in Entries : ~e.has_duration }

\* outcomes of subprocess.run(command, timeout=30) in reboot_raspberry_pi
Outcomes == {"exit0", "nonzero", "timeout", "error"}

VARIABLES
    env,                  \* the process environment
    pc,                   \* position of the main thread
    inTry,                \* execution is inside run()'s try block
    consecutive_failures, \* self.consecutive_failures
    max_failures,         \* self.max_failures
    check_interval,       \* check_interval of run()
    wait,                 \* sleep steps left until the scheduled job is due
    interrupted,          \* a KeyboardInterrupt has been raised
    intPc,                \* pc at which it was raised
    inTick,               \* monitor_task has started and not returned
    todo,                 \* entries the running strategy has still to visit
    current_live,         \* len(current_live_streams) / len(current_live)
    is_live1, streams1, failed1,   \* result of check_live_stream
    is_live2, streams2, failed2,   \* result of check_live_stream_alternative
    is_live,              \* is_live of monitor_task
    cf_before,            \* consecutive_failures when the tick started
    cf_mid,               \* consecutive_failures after lines 132-139
    reboots,              \* calls of reboot_raspberry_pi in this tick
    reboot_outcome,       \* what subprocess.run did in the last call
    reboot_ret,           \* what the last call of reboot_raspberry_pi returned
    hist,                 \* completed ticks: verdict and number of reboots
    overflow,             \* more than MaxTicks ticks completed
    only_ended,           \* no entry visited by the strategies was in progress
    long_tick             \* this tick has taken longer than check_interval

scanVars == <<todo, current_live>>
res1Vars == <<is_live1, streams1, failed1>>
res2Vars == <<is_live2, streams2, failed2>>
rebVars  == <<reboots, reboot_outcome, reboot_ret>>
histVars == <<hist, overflow>>
obsVars  == <<only_ended, long_tick>>
vars == <<env, pc, inTry, consecutive_failures, max_failures, check_interval,
          wait, interrupted, intPc, inTick, todo, current_live,
          is_live1, streams1, failed1, is_live2, streams2, failed2,
          is_live, cf_before, cf_mid, reboots, reboot_outcome, reboot_ret,
          hist, overflow, only_ended, long_tick>>

Init ==
    /\ env \in Envs
    /\ pc = "main"
    /\ inTry = FALSE
    /\ consecutive_failures = 0
    /\ max_failures = 0
    /\ check_interval = 0
    /\ wait = 0
    /\ interrupted = FALSE
    /\ intPc = "none"
    /\ inTick = FALSE
    /\ todo = 0
    /\ current_live = 0
    /\ is_live1 = FALSE /\ streams1 = 0 /\ failed1 = FALSE
    /\ is_live2 = FALSE /\ streams2 = 0 /\ failed2 = FALSE
    /\ is_live = FALSE
    /\ cf_before = 0
    /\ cf_mid = 0
    /\ reboots = 0
    /\ reboot_outcome = "none"
    /\ reboot_ret = FALSE
    /\ hist = <<>>
    /\ overflow = FALSE
    /\ only_ended = TRUE
    /\ long_tick = FALSE


(***************************************************************************)
(* Pure parts of the code.                                                 *)
(***************************************************************************)
\* variant: the password is left out of the check
RequiredPresent_nopw(e) ==
    e.channel_url /\ e.ssh_host /\ e.ssh_username

\* all([channel_url, ssh_host, ssh_username, ssh_password])
RequiredPresent(e) ==
    e.channel_url /\ e.ssh_host /\ e.ssh_username /\ e.ssh_password

\* int(os.getenv('MAX_CONSECUTIVE_FAILURES', 3)): the default when unset,
\* the value when it parses; no range check
MaxFailuresOf(e) ==
    IF e.max_kind = "unset" THEN DefaultMaxFailures ELSE e.max_val

\* the metadata of the entry says that the broadcast is only scheduled, or
\* that it was live and has ended
NotInProgress(e) ==
    \/ e.live_status = "is_upcoming"
    \/ (e.live_status = "was_live" /\ e.was_live)

\* is_currently_live of check_live_stream
IsCurrentlyLive(e) ==
    \/ e.live_status = "is_live"
    \/ (e.is_live /\ ~e.was_live)
    \/ e.live_status = "live"

\* the entry is appended to current_live_streams
Qualifies1(e) ==
    /\ IsCurrentlyLive(e)
    /\ (~e.has_duration \/ e.duration > LiveDurationMin)

\* entry.get('title', '').lower() is evaluated only when the first operand
\* of the 'or' is false and entry.get('is_live') is truthy; it raises
\* AttributeError when the title is None
Raises2(e) ==
    e.live_status # "is_live" /\ e.is_live /\ e.title = "null"

\* the entry is appended to current_live
Qualifies2(e) ==
    \/ e.live_status = "is_live"
    \/ (e.is_live /\ e.title = "has_live")

\* variant: the handler returns the entries collected before the failure
FailedCount_partial(collected) == collected

\* what a strategy returns from its 'except Exception' handler
FailedCount(collected) == 0

\* is_live = len(current_live_streams) > 0
IsLiveOf(collected) == collected > 0

\* variant: both strategies have to agree
Verdict_and(l1, l2) == l1 /\ l2

\* is_live = is_live1 or is_live2
Verdict(l1, l2) == l1 \/ l2

\* variant: '= 1' instead of '+= 1'
NextCount_assign(cf, live) == IF live THEN 0 ELSE 1

\* lines 132-139: reset on a live verdict, one more failure otherwise
NextCount(cf, live) == IF live THEN 0 ELSE cf + 1

\* variant: strict comparison, the trip comes one tick late
ShouldReboot_strict(cf, mf) == cf > mf

\* variant: off by one, the trip comes one tick early
ShouldReboot_early(cf, mf) == cf + 1 >= mf

\* if self.consecutive_failures >= self.max_failures
ShouldReboot(cf, mf) == cf >= mf

\* variant: the counter restarts at 1
AfterReboot_one(cf) == 1

\* self.consecutive_failures = 0 after the reboot attempt
AfterReboot(cf) == 0

\* variant: the timeout is reported as a failure
RebootReturn_pessimistic(outcome) ==
    CASE outcome = "exit0" -> TRUE
      [] OTHER             -> FALSE

\* return value of reboot_raspberry_pi for each outcome of subprocess.run
RebootReturn(outcome) ==
    CASE outcome = "exit0"   -> TRUE
      [] outcome = "nonzero" -> FALSE
      [] outcome = "timeout" -> TRUE
      [] OTHER               -> FALSE

\* 'except subprocess.TimeoutExpired' and 'except Exception' together catch
\* every outcome of subprocess.run that is an exception
RebootCaught(outcome) == TRUE

\* variant: the handler names a narrower exception class
StrategyCaught_narrow == FALSE

\* 'except Exception' of a strategy catches what the query or the parsing
\* of an entry raises
StrategyCaught == TRUE

\* variant: the loop swallows the interrupt and goes on
InterruptTarget_resume(tryFlag) == IF tryFlag THEN "run_pending" ELSE "crashed"

\* where a KeyboardInterrupt ends: run()'s 'except KeyboardInterrupt' when
\* raised inside the try block, otherwise nothing catches it (main() only
\* has 'except Exception')
InterruptTarget(tryFlag) == IF tryFlag THEN "stopped" ELSE "crashed"

(***************************************************************************)
(* Startup: main(), StreamMonitor.__init__ and the head of run().          *)
(***************************************************************************)
\* monitor = StreamMonitor()
main ==
    /\ pc = "main"
    /\ IF env.max_kind = "bad" \/ ~RequiredPresent(env)
       THEN /\ pc' = "main_except"
            /\ UNCHANGED <<consecutive_failures, max_failures>>
       ELSE /\ pc' = "run"
            /\ consecutive_failures' = 0
            /\ max_failures' = MaxFailuresOf(env)
    /\ UNCHANGED obsVars
    /\ UNCHANGED <<env, inTry, check_interval, wait, interrupted, intPc,
                   inTick, scanVars, res1Vars, res2Vars, is_live, cf_before,
                   cf_mid, rebVars, histVars>>

\* what monitor_task finds when it is entered
BeginTick ==
    /\ inTick' = TRUE
    /\ todo' = 0
    /\ current_live' = 0
    /\ is_live1' = FALSE /\ streams1' = 0 /\ failed1' = FALSE
    /\ is_live2' = FALSE /\ streams2' = 0 /\ failed2' = FALSE
    /\ is_live' = FALSE
    /\ cf_before' = consecutive_failures
    /\ cf_mid' = consecutive_failures
    /\ reboots' = 0
    /\ reboot_outcome' = "none"
    /\ UNCHANGED reboot_ret
    /\ only_ended' = TRUE
    /\ long_tick' = FALSE

\* variant: run() without the initial check, the job is only scheduled
run_noinitial ==
    /\ pc = "run"
    /\ IF ~env.interval_ok
       THEN /\ pc' = "main_except"
            /\ UNCHANGED check_interval
       ELSE /\ check_interval' = env.interval
            /\ pc' = "schedule"
    /\ UNCHANGED obsVars
    /\ UNCHANGED <<env, inTry, consecutive_failures, max_failures, wait,
                   interrupted, intPc, histVars, inTick, scanVars, res1Vars,
                   res2Vars, is_live, cf_before, cf_mid, rebVars>>

\* run() up to and including the call of the initial monitor_task()
run ==
    /\ pc = "run"
    /\ IF ~env.interval_ok
       THEN /\ pc' = "main_except"
            /\ UNCHANGED <<check_interval, inTick, scanVars, res1Vars,
                           res2Vars, is_live, cf_before, cf_mid, rebVars,
                           obsVars>>
       ELSE /\ check_interval' = env.interval
            /\ pc' = "check1"
            /\ BeginTick
    /\ UNCHANGED <<env, inTry, consecutive_failures, max_failures, wait,
                   interrupted, intPc, histVars>>


(***************************************************************************)
(* monitor_task, statement group by statement group.                       *)
(***************************************************************************)
\* blocking calls have returned (extract_info has no timeout, subprocess.run
\* up to 30 seconds): the tick may by now have taken longer than the check
\* interval
Elapse == \E late \in BOOLEAN : long_tick' = (long_tick \/ late)

\* an exception inside a strategy: its handler returns (False, []); an
\* exception that escaped would leave monitor_task and run() and end in
\* main()'s 'except Exception'
StrategyFails(n) ==
    IF StrategyCaught
    THEN /\ pc' = (IF n = 1 THEN "check2" ELSE "decide")
         /\ todo' = 0
         /\ current_live' = 0
         /\ IF n = 1
            THEN /\ is_live1' = IsLiveOf(FailedCount(current_live))
                 /\ streams1' = FailedCount(current_live)
                 /\ failed1' = TRUE
                 /\ UNCHANGED res2Vars
            ELSE /\ is_live2' = IsLiveOf(FailedCount(current_live))
                 /\ streams2' = FailedCount(current_live)
                 /\ failed2' = TRUE
                 /\ UNCHANGED res1Vars
    ELSE /\ pc' = "main_except"
         /\ UNCHANGED <<scanVars, res1Vars, res2Vars>>

\* ydl.extract_info(...) of either strategy: it raises (or returns no
\* dict, so that info.get raises), or returns up to MaxEntries entries
Query(n) ==
    /\ pc = (IF n = 1 THEN "check1" ELSE "check2")
    /\ \/ StrategyFails(n)
       \/ \E k \in 0..MaxEntries :
            /\ todo' = k
            /\ current_live' = 0
            /\ pc' = (IF n = 1 THEN "loop1" ELSE "loop2")
            /\ UNCHANGED <<res1Vars, res2Vars>>
    /\ UNCHANGED obsVars
    /\ UNCHANGED <<env, inTry, consecutive_failures, max_failures,
                   check_interval, wait, interrupted, intPc, inTick, is_live,
                   cf_before, cf_mid, rebVars, histVars>>

\* one iteration of 'for entry in info.get('entries', [])', or the return
\* after the last one
Scan(n) ==
    /\ pc = (IF n = 1 THEN "loop1" ELSE "loop2")
    /\ IF todo = 0
       THEN /\ pc' = (IF n = 1 THEN "check2" ELSE "decide")
            /\ UNCHANGED <<todo, only_ended>>
            /\ current_live' = 0
            /\ IF n = 1
               THEN /\ is_live1' = IsLiveOf(current_live)
                    /\ streams1' = current_live
                    /\ UNCHANGED <<failed1, res2Vars>>
               ELSE /\ is_live2' = IsLiveOf(current_live)
                    /\ streams2' = current_live
                    /\ UNCHANGED <<failed2, res1Vars>>
       ELSE \/ StrategyFails(n) /\ UNCHANGED only_ended  \* not a dict
            \/ \E e \in EntriesFor(n) :
                 /\ only_ended' = (only_ended /\ NotInProgress(e))
                 /\ IF n = 2 /\ Raises2(e)
                    THEN StrategyFails(n)
                    ELSE /\ todo' = todo - 1
                         /\ current_live' =
                               IF \/ (n = 1 /\ Qualifies1(e))
                                  \/ (n = 2 /\ Qualifies2(e))
                               THEN current_live + 1 ELSE current_live
                         /\ UNCHANGED <<pc, res1Vars, res2Vars>>
    /\ UNCHANGED long_tick
    /\ UNCHANGED <<env, inTry, consecutive_failures, max_failures,
                   check_interval, wait, interrupted, intPc, inTick, is_live,
                   cf_before, cf_mid, rebVars, histVars>>

\* is_live1, streams1 = self.check_live_stream()
check_live_stream == Query(1) \/ Scan(1)

\* is_live2, streams2 = self.check_live_stream_alternative()
check_live_stream_alternative == Query(2) \/ Scan(2)

\* lines 130-139: the verdict and the update of the counter
decide ==
    /\ pc = "decide"
    /\ is_live' = Verdict(is_live1, is_live2)
    /\ consecutive_failures' = NextCount(consecutive_failures, is_live')
    /\ cf_mid' = consecutive_failures'
    /\ pc' = "threshold"
    /\ Elapse
    /\ only_ended' = TRUE
    /\ UNCHANGED <<env, inTry, max_failures, check_interval, wait,
                   interrupted, intPc, inTick, scanVars, res1Vars, res2Vars,
                   cf_before, rebVars, histVars>>

\* monitor_task returns: the tick is recorded; the initial tick returns to
\* run() before the job is scheduled, a scheduled one returns to
\* run_pending(), which schedules the next run and returns to the loop
EndTick ==
    /\ inTick' = FALSE
    /\ long_tick' = FALSE
    /\ IF overflow \/ Len(hist) = MaxTicks
       THEN hist' = <<>> /\ overflow' = TRUE
       ELSE /\ hist' = Append(hist, [live |-> is_live, reboots |-> reboots])
            /\ UNCHANGED overflow
    /\ IF inTry
       THEN pc' = "sleep" /\ wait' = check_interval
       ELSE pc' = "schedule" /\ UNCHANGED wait

\* line 142: if self.consecutive_failures >= self.max_failures
threshold ==
    /\ pc = "threshold"
    /\ IF ShouldReboot(consecutive_failures, max_failures)
       THEN /\ pc' = "reboot"
            /\ UNCHANGED <<inTick, wait, histVars, long_tick>>
       ELSE EndTick
    /\ UNCHANGED only_ended
    /\ UNCHANGED <<env, inTry, consecutive_failures, max_failures,
                   check_interval, interrupted, intPc, scanVars, res1Vars,
                   res2Vars, is_live, cf_before, cf_mid, rebVars>>

\* variant: the Actuator clears the counter itself
reboot_raspberry_pi_resets ==
    /\ pc = "reboot"
    /\ Elapse
    /\ \E o \in Outcomes :
         /\ reboots' = reboots + 1
         /\ reboot_outcome' = o
         /\ reboot_ret' = RebootReturn(o)
         /\ pc' = "reset"
    /\ consecutive_failures' = 0
    /\ UNCHANGED only_ended
    /\ UNCHANGED <<env, inTry, max_failures,
                   check_interval, wait, interrupted, intPc, inTick, scanVars,
                   res1Vars, res2Vars, is_live, cf_before, cf_mid, histVars>>

\* self.reboot_raspberry_pi(): the return value is dropped by the caller
reboot_raspberry_pi ==
    /\ pc = "reboot"
    /\ Elapse
    /\ \E o \in Outcomes :
         /\ reboots' = reboots + 1
         /\ reboot_outcome' = o
         /\ IF RebootCaught(o)
            THEN reboot_ret' = RebootReturn(o) /\ pc' = "reset"
            ELSE UNCHANGED reboot_ret /\ pc' = "main_except"
    /\ UNCHANGED only_ended
    /\ UNCHANGED <<env, inTry, consecutive_failures, max_failures,
                   check_interval, wait, interrupted, intPc, inTick, scanVars,
                   res1Vars, res2Vars, is_live, cf_before, cf_mid, histVars>>

\* line 147: self.consecutive_failures = 0, and the return
reset ==
    /\ pc = "reset"
    /\ consecutive_failures' = AfterReboot(consecutive_failures)
    /\ EndTick
    /\ UNCHANGED only_ended
    /\ UNCHANGED <<env, inTry, max_failures, check_interval, interrupted,
                   intPc, scanVars, res1Vars, res2Vars, is_live, cf_before,
                   cf_mid, rebVars>>

monitor_task ==
    \/ check_live_stream
    \/ check_live_stream_alternative
    \/ decide
    \/ threshold
    \/ reboot_raspberry_pi
    \/ reset

(***************************************************************************)
(* The scheduler loop of run().                                            *)
(***************************************************************************)
\* schedule.every(check_interval).minutes.do(self.monitor_task), and the
\* entry into the try block
schedule_job ==
    /\ pc = "schedule"
    /\ wait' = check_interval
    /\ inTry' = TRUE
    /\ pc' = "run_pending"
    /\ UNCHANGED obsVars
    /\ UNCHANGED <<env, consecutive_failures, max_failures, check_interval,
                   interrupted, intPc, inTick, scanVars, res1Vars, res2Vars,
                   is_live, cf_before, cf_mid, rebVars, histVars>>

\* variant: the scheduler fires the job from a timer thread, also while a
\* tick that has outlasted the interval is still running
run_pending_reentrant ==
    /\ \/ pc = "run_pending"
       \/ (inTick /\ long_tick /\ pc \in {"threshold", "reboot", "reset"})
    /\ IF wait = 0
       THEN pc' = "check1" /\ BeginTick
       ELSE /\ pc' = "sleep"
            /\ UNCHANGED <<inTick, scanVars, res1Vars, res2Vars, is_live,
                           cf_before, cf_mid, rebVars, obsVars>>
    /\ UNCHANGED <<env, inTry, consecutive_failures, max_failures,
                   check_interval, wait, interrupted, intPc, histVars>>

\* schedule.run_pending(): runs the job when it is due
run_pending ==
    /\ pc = "run_pending"
    /\ IF wait = 0
       THEN pc' = "check1" /\ BeginTick
       ELSE /\ pc' = "sleep"
            /\ UNCHANGED <<inTick, scanVars, res1Vars, res2Vars, is_live,
                           cf_before, cf_mid, rebVars, obsVars>>
    /\ UNCHANGED <<env, inTry, consecutive_failures, max_failures,
                   check_interval, wait, interrupted, intPc, histVars>>

\* time.sleep(1)
sleep ==
    /\ pc = "sleep"
    /\ wait' = IF wait > 0 THEN wait - 1 ELSE 0
    /\ pc' = "run_pending"
    /\ UNCHANGED obsVars
    /\ UNCHANGED <<env, inTry, consecutive_failures, max_failures,
                   check_interval, interrupted, intPc, inTick, scanVars,
                   res1Vars, res2Vars, is_live, cf_before, cf_mid, rebVars,
                   histVars>>

\* positions at which the process has ended
Ended == {"main_except", "stopped", "crashed"}

\* an external interrupt (SIGINT): KeyboardInterrupt is raised at the
\* statement being executed; none of the 'except Exception' handlers
\* catches it, only run()'s 'except KeyboardInterrupt'
Interrupt ==
    /\ pc \notin Ended
    /\ interrupted' = TRUE
    /\ intPc' = pc
    /\ pc' = InterruptTarget(inTry)
    /\ UNCHANGED obsVars
    /\ UNCHANGED <<env, inTry, consecutive_failures, max_failures,
                   check_interval, wait, inTick, scanVars, res1Vars, res2Vars,
                   is_live, cf_before, cf_mid, rebVars, histVars>>

Program ==
    \/ main
    \/ run
    \/ monitor_task
    \/ schedule_job
    \/ run_pending
    \/ sleep

Next == Program \/ Interrupt

Spec == Init /\ [][Next]_vars

\* the interpreter keeps executing the main thread
LiveSpec == Spec /\ WF_vars(Program)

TypeOK ==
    /\ env \in Envs
    /\ pc \in {"main", "run", "check1", "loop1", "check2", "loop2", "decide",
               "threshold", "reboot", "reset", "schedule", "run_pending",
               "sleep"} \cup Ended
    /\ consecutive_failures \in 0..(MaxMaxFailures + 1)
    /\ max_failures \in MinMaxFailures..MaxMaxFailures
    /\ wait \in 0..MaxInterval
    /\ todo \in 0..MaxEntries
    /\ current_live \in 0..MaxEntries
    /\ reboots \in 0..1
    /\ Len(hist) <= MaxTicks


(***************************************************************************)
(* Vocabulary of the properties.                                           *)
(***************************************************************************)
\* StreamMonitor() has returned an object
Constructed ==
    /\ RequiredPresent(env) /\ env.max_kind # "bad"
    /\ pc # "main" /\ intPc # "main"

\* at least one tick has run to its end and none is in progress
TickDone == ~inTick /\ (Len(hist) > 0 \/ overflow)

\* statements of monitor_task after the counter update
AfterDecide == {"threshold", "reboot", "reset"}

\* the running or the last tick has passed lines 130-139
Decided ==
    \/ TickDone
    \/ inTick /\ (pc \in AfterDecide \/ intPc \in AfterDecide)

RECURSIVE TrailingNeg(_)
\* length of the trailing run of negative verdicts of a history
TrailingNeg(h) ==
    IF h = <<>> \/ h[Len(h)].live
    THEN 0
    ELSE 1 + TrailingNeg(SubSeq(h, 1, Len(h) - 1))

\* C1: for positive MaxFailures, after every completed tick of a recorded
\* history the counter equals the length of the trailing run of negative
\* verdicts modulo MaxFailures (0 on the tick at which the run reaches it).
C1_CountIsTrailingRun ==
    (Constructed /\ ~inTick /\ ~overflow /\ max_failures > 0)
        => consecutive_failures = TrailingNeg(hist) % max_failures

\* a run of three negatives under MaxFailures = 2: tripped once, count 1
C1_Witness ==
    /\ ~inTick /\ max_failures = 2 /\ Len(hist) = 4
    /\ hist[1].live /\ TrailingNeg(hist) = 3
    /\ hist[3].reboots = 1
    /\ consecutive_failures = 1


\* C2: the Actuator is invoked in a tick exactly when the tick's negative
\* verdict brings the counter to MaxFailures, at most once, and the counter
\* is 0 when a tick that invoked it ends; MaxFailures = 1 trips on every
\* negative tick.
C2_RebootIffThresholdReached ==
    TickDone =>
        /\ reboots <= 1
        /\ (reboots = 1) <=> (~is_live /\ cf_mid = max_failures)
        /\ (reboots = 1) => consecutive_failures = 0
        /\ (max_failures = 1 /\ ~is_live) => reboots = 1

\* C3: a tick whose verdict is live ends with the counter at 0 and without
\* an Actuator call, for every value max_failures was started with.
C3_LiveTickNeverReboots ==
    (Decided /\ is_live) => (consecutive_failures = 0 /\ reboots = 0)

\* C4: the counter is within [0, MaxFailures] whenever no tick is in
\* progress, from the construction of the monitor on.
C4_CountWithinBounds ==
    (Constructed /\ ~inTick)
        => (0 <= consecutive_failures /\ consecutive_failures <= max_failures)

\* C5: every Actuator call of a recorded history is preceded by MaxFailures
\* consecutive negative ticks (its own included) none of which but the last
\* called the Actuator, whatever the earlier calls returned.
C5_NoRetryBeforeNewRun ==
    \A i \in 1..Len(hist) :
        hist[i].reboots > 0 =>
            /\ i >= max_failures
            /\ \A j \in (i - max_failures + 1)..i : ~hist[j].live
            /\ \A j \in (i - max_failures + 1)..(i - 1) : hist[j].reboots = 0

\* a call at tick 2 under MaxFailures = 2, then a negative tick without a
\* call, then the next call at tick 4
C5_Witness ==
    /\ max_failures = 2 /\ Len(hist) = 4
    /\ hist[1].reboots = 0 /\ hist[2].reboots = 1
    /\ ~hist[3].live /\ hist[3].reboots = 0
    /\ hist[4].reboots = 1

\* C6: the verdict of a tick is live exactly when one of the two strategies
\* returned live, and a negative verdict adds exactly 1 to the counter.
C6_VerdictIsOr ==
    Decided =>
        /\ is_live <=> (is_live1 \/ is_live2)
        /\ ~is_live => cf_mid = cf_before + 1

\* both strategies returned not live without failing; the count went 1 -> 2
C6_Witness ==
    /\ pc = "threshold" /\ ~failed1 /\ ~failed2
    /\ ~is_live1 /\ ~is_live2 /\ ~is_live
    /\ cf_before = 1 /\ cf_mid = 2

\* C7: a strategy that fails internally returns not live with an empty
\* list, the verdict is then the other strategy's, and no failure of a
\* strategy ends the process.
C7_StrategyFailureIsNegative ==
    /\ failed1 => (~is_live1 /\ streams1 = 0)
    /\ failed2 => (~is_live2 /\ streams2 = 0)
    /\ (Decided /\ failed1) => (is_live <=> is_live2)
    /\ (Decided /\ failed2) => (is_live <=> is_live1)
    /\ (Decided /\ failed1 /\ failed2) => (~is_live /\ cf_mid = cf_before + 1)
    /\ inTick => pc # "main_except"

\* the first strategy failed, the second found a stream: the tick completed
\* with a live verdict
C7_Witness ==
    /\ TickDone /\ failed1 /\ ~failed2 /\ is_live2 /\ is_live
    /\ consecutive_failures = 0

\* C8: the Actuator returns true exactly for exit status 0 and for the
\* timeout, false for a non-zero status and any other failure, raises
\* nothing into the tick, and the tick that called it ends with the counter
\* at 0.
C8_RebootReturnValue ==
    /\ reboots > 0 =>
          /\ reboot_outcome \in Outcomes
          /\ reboot_ret <=> (reboot_outcome \in {"exit0", "timeout"})
    /\ (TickDone /\ reboots > 0) => consecutive_failures = 0
    /\ inTick => pc # "main_except"

\* the command timed out at the third negative tick: true, counter reset
C8_Witness ==
    /\ TickDone /\ max_failures = 3 /\ reboots = 1
    /\ reboot_outcome = "timeout" /\ reboot_ret
    /\ cf_mid = 3 /\ consecutive_failures = 0


\* C9: inside the monitoring loop, as long as no interrupt arrives, a tick
\* in progress ends, a finished tick is followed by the start of another
\* one, and nothing inside a tick ends the process.  (The loop is never
\* left but by an interrupt, so "again and again no tick is in progress"
\* says that every tick ends and "again and again one is" that another
\* one starts.)
C9_TicksKeepComing ==
    /\ [](inTry => pc # "main_except")
    /\ []<>(~inTry \/ interrupted \/ ~inTick)
    /\ []<>(~inTry \/ interrupted \/ inTick)

\* a scheduled tick starts after a tick whose reboot attempt was rejected
C9_Witness ==
    /\ inTry /\ inTick /\ pc = "check1" /\ ~interrupted
    /\ Len(hist) >= 2
    /\ hist[Len(hist)].reboots = 1 /\ ~reboot_ret

TickPcs == {"check1", "loop1", "check2", "loop2", "decide", "threshold",
            "reboot", "reset"}

\* C11: an interrupt that arrives once the monitor is running, the initial
\* tick included, ends in run()'s handler ("stopped by user").
C11_InterruptStopsCleanly ==
    (interrupted /\ intPc \notin {"main", "run"}) => pc = "stopped"

\* C12: when a required setting is missing or empty the process ends in
\* main()'s handler without a tick: no strategy is called, the Actuator is
\* never invoked and the scheduling loop is never entered.
C12_MissingSettingNeverTicks ==
    (~env.channel_url \/ ~env.ssh_host \/ ~env.ssh_username
        \/ ~env.ssh_password) =>
        /\ pc \in {"main", "main_except", "crashed"}
        /\ (pc = "crashed" => interrupted)
        /\ ~inTick /\ ~inTry /\ wait = 0
        /\ hist = <<>> /\ ~overflow
        /\ ~failed1 /\ ~failed2 /\ todo = 0
        /\ reboots = 0 /\ reboot_outcome = "none"

\* only the password is missing: the process ended in main()'s handler
C12_Witness ==
    /\ pc = "main_except" /\ ~interrupted
    /\ env.channel_url /\ env.ssh_host /\ env.ssh_username
    /\ ~env.ssh_password
    /\ env.max_kind = "int" /\ env.interval_ok

\* C14: a step of a detection strategy or of the Actuator, whether the call
\* succeeds or fails, leaves the counter and the loaded configuration as
\* they were.
C14_CallsLeaveStateAlone ==
    [][(pc \in {"check1", "loop1", "check2", "loop2", "reboot"}) =>
          (/\ consecutive_failures' = consecutive_failures
           /\ max_failures' = max_failures
           /\ check_interval' = check_interval
           /\ env' = env)]_vars

\* the first strategy failed and the reboot command failed: the counter is
\* still at MaxFailures when the Actuator has returned
C14_Witness ==
    /\ pc = "reset" /\ failed1 /\ reboot_outcome = "error"
    /\ max_failures = 2 /\ consecutive_failures = 2

\* C16: run() performs exactly one tick before the job is scheduled and
\* before anything is waited for, and the scheduled ticks go on from the
\* counter that tick left.
C16_InitialTickCounts ==
    /\ pc = "schedule" => (Len(hist) = 1 /\ ~overflow /\ wait = 0 /\ ~inTick)
    /\ inTry => (Len(hist) >= 1 \/ overflow)
    /\ (inTick /\ Len(hist) = 0 /\ ~overflow) => (~inTry /\ cf_before = 0)
    /\ (inTick /\ Len(hist) = 1 /\ max_failures > 1)
          => cf_before = (IF hist[1].live THEN 0 ELSE 1)

\* MaxFailures = 3 and three negative ticks, the first of them the initial
\* one: the Actuator ran in the third and the counter is back at 0
C16_Witness ==
    /\ inTry /\ ~inTick /\ max_failures = 3 /\ Len(hist) = 3
    /\ TrailingNeg(hist) = 3
    /\ hist[1].reboots = 0 /\ hist[2].reboots = 0 /\ hist[3].reboots = 1
    /\ consecutive_failures = 0

\* C18: for positive MaxFailures the counter is below MaxFailures whenever
\* no tick is in progress, and it equals MaxFailures only inside a tick,
\* after the increment and before the reset.
C18_CountBelowThreshold ==
    (Constructed /\ max_failures > 0) =>
        /\ ~inTick => (0 <= consecutive_failures
                          /\ consecutive_failures < max_failures)
        /\ consecutive_failures <= max_failures
        /\ consecutive_failures = max_failures =>
              (inTick /\ (pc \in AfterDecide \/ intPc \in AfterDecide))

\* the counter has just reached MaxFailures = 2, the Actuator is about to run
C18_Witness ==
    /\ pc = "reboot" /\ inTick /\ max_failures = 2
    /\ consecutive_failures = 2 /\ cf_before = 1


\* C17: for positive MaxFailures, when the loop is entered, no interrupt
\* arrives and from some tick on no strategy reports a live stream, the
\* Actuator is invoked again and again, whatever its calls return; in a
\* recorded history it runs in exactly the negative ticks that complete a
\* multiple of MaxFailures consecutive negatives.
C17_RebootRecurs ==
    /\ []((TickDone /\ ~overflow /\ max_failures > 0) =>
            ((reboots = 1) <=>
                (TrailingNeg(hist) > 0
                    /\ TrailingNeg(hist) % max_failures = 0)))
    /\ ([]~interrupted /\ <>(inTry /\ max_failures > 0)
            /\ <>[](~is_live1 /\ ~is_live2))
          => []<>(pc = "reboot")

\* the Actuator is about to run for the second time under MaxFailures = 2,
\* after four negative ticks and a first call that reported failure
C17_Witness ==
    /\ pc = "reboot" /\ inTry /\ max_failures = 2 /\ ~interrupted
    /\ Len(hist) = 3 /\ TrailingNeg(hist) = 3
    /\ hist[2].reboots = 1 /\ ~reboot_ret


\* C13: ticks run one after the other: a tick starts only from run() or
\* from run_pending(), when no tick is in flight, and while a tick is in
\* flight the main thread is inside monitor_task, however long it takes.
C13_TicksAreSerial ==
    /\ [](inTick => (pc \in TickPcs \/ (interrupted /\ intPc \in TickPcs)))
    /\ [][(pc' = "check1" /\ pc # "check1") =>
             (~inTick /\ ~long_tick /\ pc \in {"run", "run_pending"})]_vars

\* a scheduled tick whose reboot command timed out has taken longer than
\* the check interval and is still the tick in flight
C13_Witness ==
    /\ inTry /\ inTick /\ long_tick /\ pc = "reset"
    /\ Len(hist) >= 1 /\ reboot_outcome = "timeout" /\ wait = 0

\* C15: when every entry the strategies visited is merely scheduled or has
\* ended, neither strategy has returned live.
C15_EndedEntriesNeverLive ==
    (pc = "decide" /\ only_ended) => (~is_live1 /\ ~is_live2)

====
